---- MODULE Spec2Model ----
(***************************************************************************)
(* Model of the Vectis Python SDK: vectis/vector.py (class Vector) and     *)
(* vectis/client.py (class VectisClient).                                  *)
(*                                                                         *)
(* Four specifications share the module.  SpecMetric applies the pairwise  *)
(* metrics of Vector to vectors built from lists; SpecVector drives        *)
(* construction, normalize and component writes over a heap of numpy       *)
(* arrays; SpecClient drives one VectisClient and its caller through the   *)
(* key-value operations, SpecClientVec through the vector operations,      *)
(* both against a remote store reached over HTTP.                          *)
(*                                                                         *)
(* Numbers.  A float32 is modelled as a binary fixed-point number: the     *)
(* integer u stands for u / Scale, every arithmetic result is rounded back *)
(* to that grid (round half to even), and a product smaller than half a    *)
(* grid step becomes 0, as a float32 product underflows.  A Python float   *)
(* (a double) has twice the resolution: the integer h stands for           *)
(* h / (2 * Scale).  Non-finite components are not modelled as inputs.     *)
(***************************************************************************)
EXTENDS Integers, Sequences, FiniteSets, TLC

VARIABLES
  heap,      \* numpy arrays, by identity
  vecs,      \* Vector objects: the identity of the array each holds
  vres,      \* the last Vector operation and its outcome
  lastNorm,  \* the last normalize call: receiver, result, receiver's data before
  store,     \* remote key-value store
  vstore,    \* remote vector store
  client,    \* "none", "connected" (handed to the caller) or "failed"
  session,   \* the requests.Session: "none", "open" or "closed"
  pc,        \* the caller: "start", "block", "plain", "after" or "done"
  usage,     \* how the caller holds the client: "with" or "plain"
  probe,     \* the constructor's liveness probe
  last       \* the last client operation and its outcome

vvars == <<heap, vecs, vres, lastNorm>>
cvars == <<store, vstore, client, session, pc, usage, probe, last>>
vars == <<heap, vecs, vres, lastNorm, store, vstore, client, session, pc, usage, probe, last>>

(* ------------------------------ bounds --------------------------------- *)

\* grid steps per 1.0 of the fixed-point float32
Scale == 2
\* largest dimension of a vector built from a list
MaxDim == 2
\* number of Vector objects alive at once
MaxVecs == 2

\* Python floats handed to Vector(list), in half grid steps
InputVals == {1, 4}
\* values written through __setitem__, in grid steps
WriteVals == {2}

(* --------------------------- float32 arithmetic ------------------------ *)

\* n / d for d > 0, rounded to the nearest integer, ties to even
RoundHalfEven(n, d) ==
  LET q == n \div d
      r == n % d
  IN  IF 2 * r < d THEN q
      ELSE IF 2 * r > d THEN q + 1
      ELSE IF q % 2 = 0 THEN q ELSE q + 1

\* np.array(..., dtype=np.float32) on one Python float
ToF32(h) == RoundHalfEven(h, 2)

\* ndarray.tolist() on one float32: exact widening to a Python float
FromF32(u) == 2 * u

FMul(a, b) == RoundHalfEven(a * b, Scale)

FDiv(a, b) == RoundHalfEven(a * Scale, b)

\* largest r with r * r <= n
Isqrt(n) == CHOOSE r \in 0..n : r * r <= n /\ (r + 1) * (r + 1) > n

FSqrt(a) == Isqrt(a * Scale)

RECURSIVE SumSeq(_)
SumSeq(s) == IF s = <<>> THEN 0 ELSE Head(s) + SumSeq(Tail(s))

(* ------------------------------- numpy --------------------------------- *)

Float(x) == [tag |-> "ok", val |-> x, exc |-> ""]
NaN == [tag |-> "nan", val |-> 0, exc |-> ""]
Inf == [tag |-> "inf", val |-> 0, exc |-> ""]
Raise(e) == [tag |-> "raise", val |-> 0, exc |-> e]
NoOut == [tag |-> "none", val |-> 0, exc |-> ""]

\* np.dot on two 1-D arrays: the lengths must agree
NpDot(a, b) ==
  IF Len(a) # Len(b) THEN Raise("ValueError")
  ELSE Float(SumSeq([i \in 1..Len(a) |-> FMul(a[i], b[i])]))

\* np.linalg.norm on a 1-D float32 array: sqrt(dot(x, x)); 0.0 when empty
NpNorm(a) == FSqrt(SumSeq([i \in 1..Len(a) |-> FMul(a[i], a[i])]))

\* a - b with numpy broadcasting: a length-1 operand is stretched
NpSub(a, b) ==
  IF Len(a) = Len(b) THEN [ok |-> TRUE, arr |-> [i \in 1..Len(a) |-> a[i] - b[i]]]
  ELSE IF Len(a) = 1 THEN [ok |-> TRUE, arr |-> [i \in 1..Len(b) |-> a[1] - b[i]]]
  ELSE IF Len(b) = 1 THEN [ok |-> TRUE, arr |-> [i \in 1..Len(a) |-> a[i] - b[1]]]
  ELSE [ok |-> FALSE, arr |-> <<>>]

(* ------------------------------- Vector -------------------------------- *)

\* the numpy array a Vector holds
DataOf(hp, vs, v) == hp[vs[v]]

\* Vector.__init__ on a list: a fresh float32 array
VectorFromList(hp, xs) ==
  [heap |-> Append(hp, [i \in 1..Len(xs) |-> ToF32(xs[i])]), id |-> Len(hp) + 1]

\* plausible bug: the constructor keeps the caller's array (self.data = data)
VectorFromArrayShared(hp, id) == [heap |-> hp, id |-> id]

\* Vector.__init__ on an ndarray: flatten().astype(np.float32), a fresh copy
VectorFromArray(hp, id) == [heap |-> Append(hp, hp[id]), id |-> Len(hp) + 1]

\* Vector.__init__ on the temporary self.data / norm
VectorFromTemp(hp, arr) == [heap |-> Append(hp, arr), id |-> Len(hp) + 1]

\* Vector.to_list
to_list(a) == [i \in 1..Len(a) |-> FromF32(a[i])]

\* Vector.normalize: the heap and the array of the returned Vector
normalize(hp, id) ==
  LET n == NpNorm(hp[id])
  IN  IF n > 0
      THEN VectorFromTemp(hp, [i \in 1..Len(hp[id]) |-> FDiv(hp[id][i], n)])
      ELSE VectorFromArray(hp, id)

\* plausible bug: no zero-norm guard, the division runs on a zero denominator
cosine_similarity_unguarded(a, b) ==
  LET d == NpDot(a, b)
      den == FMul(NpNorm(a), NpNorm(b))
  IN  IF d.tag = "raise" THEN d
      ELSE IF den = 0 THEN (IF d.val = 0 THEN NaN ELSE Inf)
      ELSE Float(FDiv(d.val, den))

\* Vector.cosine_similarity
cosine_similarity(a, b) ==
  LET d == NpDot(a, b)
      norm_self == NpNorm(a)
      norm_other == NpNorm(b)
      den == FMul(norm_self, norm_other)
  IN  IF d.tag = "raise" THEN d
      ELSE IF norm_self = 0 \/ norm_other = 0 THEN Float(0)
      ELSE IF den = 0 THEN (IF d.val = 0 THEN NaN ELSE Inf)
      ELSE Float(FDiv(d.val, den))

\* Vector.euclidean_distance
euclidean_distance(a, b) ==
  LET s == NpSub(a, b)
  IN  IF s.ok THEN Float(NpNorm(s.arr)) ELSE Raise("ValueError")

\* Vector.dot_product
dot_product(a, b) == NpDot(a, b)

(* --------------------------- Vector: actions --------------------------- *)

Lists == UNION {[1..n -> InputVals] : n \in 0..MaxDim}

VRes(op, a, b, out) == [op |-> op, a |-> a, b |-> b, out |-> out]

NoNorm == [src |-> 0, res |-> 0, before |-> <<>>]

VInit ==
  /\ heap = <<>>
  /\ vecs = <<>>
  /\ vres = VRes("none", 0, 0, NoOut)
  /\ lastNorm = NoNorm

\* v = Vector(xs)
Construct ==
  \E xs \in Lists :
    /\ Len(vecs) < MaxVecs
    /\ LET r == VectorFromList(heap, xs)
       IN  /\ heap' = r.heap
           /\ vecs' = Append(vecs, r.id)
           /\ vres' = VRes("construct", Len(vecs) + 1, 0, NoOut)
    /\ UNCHANGED <<lastNorm, cvars>>

\* r = v.normalize()
Normalize ==
  \E v \in 1..Len(vecs) :
    /\ Len(vecs) < MaxVecs
    /\ LET r == normalize(heap, vecs[v])
       IN  /\ heap' = r.heap
           /\ vecs' = Append(vecs, r.id)
           /\ vres' = VRes("normalize", v, Len(vecs) + 1, NoOut)
           /\ lastNorm' = [src |-> v, res |-> Len(vecs) + 1, before |-> heap[vecs[v]]]
    /\ UNCHANGED cvars

\* v[idx] = x, idx counted from 0; numpy raises IndexError past the end
SetItem ==
  \E v \in 1..Len(vecs), idx \in 0..MaxDim, x \in WriteVals :
    /\ IF idx < Len(DataOf(heap, vecs, v))
       THEN /\ heap' = [heap EXCEPT ![vecs[v]][idx + 1] = x]
            /\ vres' = VRes("setitem", v, 0, NoOut)
       ELSE /\ heap' = heap
            /\ vres' = VRes("setitem", v, 0, Raise("IndexError"))
    /\ UNCHANGED <<vecs, lastNorm, cvars>>

CosineSimilarity ==
  \E v \in 1..Len(vecs), w \in 1..Len(vecs) :
    /\ vres' = VRes("cosine_similarity", v, w,
                    cosine_similarity(DataOf(heap, vecs, v), DataOf(heap, vecs, w)))
    /\ UNCHANGED <<heap, vecs, lastNorm, cvars>>

EuclideanDistance ==
  \E v \in 1..Len(vecs), w \in 1..Len(vecs) :
    /\ vres' = VRes("euclidean_distance", v, w,
                    euclidean_distance(DataOf(heap, vecs, v), DataOf(heap, vecs, w)))
    /\ UNCHANGED <<heap, vecs, lastNorm, cvars>>

DotProduct ==
  \E v \in 1..Len(vecs), w \in 1..Len(vecs) :
    /\ vres' = VRes("dot_product", v, w,
                    dot_product(DataOf(heap, vecs, v), DataOf(heap, vecs, w)))
    /\ UNCHANGED <<heap, vecs, lastNorm, cvars>>

MetricNext ==
  \/ Construct
  \/ CosineSimilarity
  \/ EuclideanDistance
  \/ DotProduct

VectorNext ==
  \/ Construct
  \/ Normalize
  \/ SetItem

(* ------------------------- Python and JSON values ---------------------- *)

PyNone == [t |-> "none", s |-> ""]
PyStr(x) == [t |-> "str", s |-> x]

\* Python truthiness of a decoded JSON slot: None and "" are falsy
Truthy(v) == v.t = "str" /\ v.s # ""

\* a JSON object with no members
EmptyObj == [f \in {} |-> 0]

\* dict.get(name, default) on a decoded JSON object
DictGet(obj, name, default) == IF name \in DOMAIN obj THEN obj[name] ELSE default

(* ---------------------------- client bounds ---------------------------- *)

\* longest key list handed to batch_get
MaxKeys == 2
\* largest k handed to search_similar
MaxK == 2

Keys == {"a", "b"}
Values == {"", "x"}
VKeys == {"v1", "v2"}
\* vectors handed to put_vector and search_similar, as Python floats
VecLists == {<<4, 0>>, <<4, 4>>}

Absent == [present |-> FALSE, value |-> ""]
Present(v) == [present |-> TRUE, value |-> v]
VAbsent == [present |-> FALSE, value |-> <<>>]
VPresent(v) == [present |-> TRUE, value |-> v]

KeyLists == UNION {[1..n -> Keys] : n \in 0..MaxKeys}
KeyRank == [k \in Keys |-> IF k = "a" THEN 1 ELSE 2]

NoDup(ks) == \A i, j \in 1..Len(ks) : ks[i] = ks[j] => i = j
Range(sq) == {sq[i] : i \in 1..Len(sq)}

(* ------------------------------ HTTP ----------------------------------- *)

\* a response: status code, body text, whether the body decodes as JSON, and
\* the decoded object
Resp(st, text, dec, obj) == [status |-> st, text |-> text, decodes |-> dec, json |-> obj]

\* what the transport does with one request: fail is "none", "connection" or
\* "timeout"; resp is the response when it does not fail
Env(fail, kind, resp) == [fail |-> fail, kind |-> kind, resp |-> resp]
Answer(resp) == Env("none", "remote", resp)
Deviant(resp) == Env("none", "deviant", resp)
NoResp == Resp(0, "", FALSE, EmptyObj)
ConnectionLost == Env("connection", "transport", NoResp)
TimedOut == Env("timeout", "transport", NoResp)
ServerError == Deviant(Resp(500, "boom", FALSE, EmptyObj))

(* ------------------ remote store, from the wire contract --------------- *)

RemoteOk == Resp(200, "", FALSE, EmptyObj)

RemoteGet(st, k) ==
  IF st[k].present THEN Resp(200, st[k].value, FALSE, EmptyObj)
  ELSE Resp(404, "not found", FALSE, EmptyObj)

RemoteBatchGet(st, ks) ==
  Resp(200, "", TRUE,
       [values |-> [i \in 1..Len(ks) |->
                      IF st[ks[i]].present THEN PyStr(st[ks[i]].value) ELSE PyNone]])

RemoteVectorGet(vs, k) ==
  IF vs[k].present
  THEN Resp(200, "", TRUE, [vector |-> [i \in 1..Len(vs[k].value) |-> FromF32(vs[k].value[i])]])
  ELSE Resp(404, "not found", FALSE, EmptyObj)

\* the keys of [start, end) in key order, reversed on request, cut at limit
RECURSIVE SortedKeys(_)
SortedKeys(S) ==
  IF S = {} THEN <<>>
  ELSE LET m == CHOOSE k \in S : \A j \in S : KeyRank[k] <= KeyRank[j]
       IN  <<m>> \o SortedKeys(S \ {m})

Reverse(sq) == [i \in 1..Len(sq) |-> sq[Len(sq) + 1 - i]]
Take(sq, n) == IF Len(sq) <= n THEN sq ELSE SubSeq(sq, 1, n)

RemoteScan(st, start, end, limit, reverse) ==
  LET hit == {k \in Keys : st[k].present /\ KeyRank[start] <= KeyRank[k] /\ KeyRank[k] < KeyRank[end]}
      asc == SortedKeys(hit)
      ord == IF reverse THEN Reverse(asc) ELSE asc
      cut == IF limit = 0 THEN ord ELSE Take(ord, limit)
  IN  Resp(200, "", TRUE,
           [entries |-> [i \in 1..Len(cut) |-> [key |-> cut[i], value |-> st[cut[i]].value]]])

\* distance of a stored vector to the query, both float32
RemoteDistance(vs, k, q) == euclidean_distance(vs[k].value, q).val

Ascending(rs) == \A i \in 1..(Len(rs) - 1) : rs[i].distance <= rs[i + 1].distance

\* every answer the remote may give to a search: the k nearest stored vectors,
\* nearest first, ties in either order
RemoteSearchResults(vs, q, k) ==
  LET have == {key \in VKeys : vs[key].present}
      n == IF Cardinality(have) < k THEN Cardinality(have) ELSE k
      item(key) == [key |-> key, distance |-> RemoteDistance(vs, key, q)]
  IN  {rs \in [1..n -> {item(key) : key \in have}] :
         /\ \A i, j \in 1..n : rs[i].key = rs[j].key => i = j
         /\ Ascending(rs)
         /\ \A key \in have : (\A i \in 1..n : rs[i].key # key) =>
              \A i \in 1..n : rs[i].distance <= RemoteDistance(vs, key, q)}

RemoteSearch(vs, q, k) ==
  {Resp(200, "", TRUE, [results |-> rs]) : rs \in RemoteSearchResults(vs, q, k)}

RemoteStats(st) ==
  Resp(200, "", TRUE, [keys |-> Cardinality({k \in Keys : st[k].present})])

RemoteHealth == Resp(200, "", TRUE, [status |-> "ok"])

(* ----------------------------- VectisClient ---------------------------- *)

Ret(v) == [kind |-> "return", exc |-> "", prefix |-> "", body |-> "", val |-> v, sent |-> FALSE]
NoCall == Ret(PyNone)

\* raise e out of an operation whose request outcome was r
RaiseExc(r, e) == [r EXCEPT !.kind = "raise", !.exc = e, !.val = PyNone]

\* raise VectisError(f"{prefix}{response.text}")
Failed(r, prefix) ==
  [r EXCEPT !.kind = "raise", !.exc = "VectisError", !.prefix = prefix,
            !.body = r.val.text, !.val = PyNone]

Return(r, v) == [r EXCEPT !.val = v]

\* VectisClient._request: hands the request to the session whatever the
\* session's state; a RequestException becomes VectisConnectionError
_request(env) ==
  IF env.fail # "none"
  THEN [kind |-> "raise", exc |-> "VectisConnectionError", prefix |-> "Request failed: ",
        body |-> env.fail, val |-> PyNone, sent |-> TRUE]
  ELSE [kind |-> "return", exc |-> "", prefix |-> "", body |-> "", val |-> env.resp,
        sent |-> TRUE]

\* the shape shared by put, delete, batch_put and put_vector
StatusOnly(env, prefix) ==
  LET r == _request(env)
  IN  IF r.kind = "raise" THEN r
      ELSE IF r.val.status # 200 THEN Failed(r, prefix)
      ELSE Return(r, PyNone)

put(env) == StatusOnly(env, "PUT failed: ")

\* plausible bug: every status but 200 is taken for "not found"
get_absent_on_failure(env) ==
  LET r == _request(env)
  IN  IF r.kind = "raise" THEN r
      ELSE IF r.val.status # 200 THEN Return(r, PyNone)
      ELSE Return(r, PyStr(r.val.text))

get(env) ==
  LET r == _request(env)
  IN  IF r.kind = "raise" THEN r
      ELSE IF r.val.status = 404 THEN Return(r, PyNone)
      ELSE IF r.val.status # 200 THEN Failed(r, "GET failed: ")
      ELSE Return(r, PyStr(r.val.text))

delete(env) == StatusOnly(env, "DELETE failed: ")

batch_put(env) == StatusOnly(env, "Batch PUT failed: ")

\* {k: v if v else None for k, v in zip(keys, values)}
ZipDict(ks, values) ==
  LET n == IF Len(ks) < Len(values) THEN Len(ks) ELSE Len(values)
      lastAt(k) == CHOOSE i \in 1..n : ks[i] = k /\ \A j \in 1..n : ks[j] = k => j <= i
  IN  [k \in {ks[i] : i \in 1..n} |->
         IF Truthy(values[lastAt(k)]) THEN values[lastAt(k)] ELSE PyNone]

batch_get(ks, env) ==
  LET r == _request(env)
  IN  IF r.kind = "raise" THEN r
      ELSE IF r.val.status # 200 THEN Failed(r, "Batch GET failed: ")
      ELSE IF ~r.val.decodes THEN RaiseExc(r, "JSONDecodeError")
      ELSE Return(r, ZipDict(ks, DictGet(r.val.json, "values", <<>>)))

scan(env) ==
  LET r == _request(env)
  IN  IF r.kind = "raise" THEN r
      ELSE IF r.val.status # 200 THEN Failed(r, "SCAN failed: ")
      ELSE IF ~r.val.decodes THEN RaiseExc(r, "JSONDecodeError")
      ELSE LET es == DictGet(r.val.json, "entries", <<>>)
           IN  Return(r, [i \in 1..Len(es) |-> <<es[i].key, es[i].value>>])

\* the JSON body put_vector sends: Vector(vector).to_list()
put_vector_request(key, vector) ==
  [key |-> key, vector |-> to_list([i \in 1..Len(vector) |-> ToF32(vector[i])])]

put_vector(env) == StatusOnly(env, "Vector PUT failed: ")

get_vector(env) ==
  LET r == _request(env)
  IN  IF r.kind = "raise" THEN r
      ELSE IF r.val.status = 404 THEN Return(r, PyNone)
      ELSE IF r.val.status # 200 THEN Failed(r, "Vector GET failed: ")
      ELSE IF ~r.val.decodes THEN RaiseExc(r, "JSONDecodeError")
      ELSE IF "vector" \notin DOMAIN r.val.json THEN RaiseExc(r, "KeyError")
      ELSE Return(r, [t |-> "Vector",
                      data |-> [i \in 1..Len(r.val.json.vector) |-> ToF32(r.val.json.vector[i])]])

\* plausible bug: the request asks for one neighbour too many
search_similar_request_off_by_one(query, k) ==
  [query |-> to_list([i \in 1..Len(query) |-> ToF32(query[i])]), k |-> k + 1]

\* the JSON body search_similar sends
search_similar_request(query, k) ==
  [query |-> to_list([i \in 1..Len(query) |-> ToF32(query[i])]), k |-> k]

search_similar(env) ==
  LET r == _request(env)
  IN  IF r.kind = "raise" THEN r
      ELSE IF r.val.status # 200 THEN Failed(r, "Vector search failed: ")
      ELSE IF ~r.val.decodes THEN RaiseExc(r, "JSONDecodeError")
      ELSE LET rs == DictGet(r.val.json, "results", <<>>)
           IN  Return(r, [i \in 1..Len(rs) |-> <<rs[i].key, rs[i].distance>>])

get_stats(env) ==
  LET r == _request(env)
  IN  IF r.kind = "raise" THEN r
      ELSE IF r.val.status # 200 THEN Failed(r, "Failed to get stats: ")
      ELSE IF ~r.val.decodes THEN RaiseExc(r, "JSONDecodeError")
      ELSE Return(r, r.val.json)

health_check(env) ==
  LET r == _request(env)
  IN  IF r.kind = "raise" THEN r
      ELSE IF r.val.status # 200 THEN Failed(r, "Health check failed: ")
      ELSE IF ~r.val.decodes THEN RaiseExc(r, "JSONDecodeError")
      ELSE Return(r, r.val.json)

\* plausible bug: the constructor swallows the probe's failure
VectisClient_init_swallow(env) == [get_stats(env) EXCEPT !.kind = "return", !.val = PyNone]

\* VectisClient.__init__ after the session is made: the probe, any exception
\* of which becomes VectisConnectionError
VectisClient_init(env) ==
  LET r == get_stats(env)
  IN  IF r.kind = "raise"
      THEN [r EXCEPT !.exc = "VectisConnectionError", !.prefix = "Failed to connect to "]
      ELSE Return(r, PyNone)

\* VectisClient.close: the session's state after self.session.close()
close(s) == "closed"

(* --------------------------- client: actions --------------------------- *)

NoEnv == Env("none", "none", NoResp)

CInit ==
  /\ store = [k \in Keys |-> Absent]
  /\ vstore = [k \in VKeys |-> VAbsent]
  /\ client = "none"
  /\ session = "none"
  /\ pc = "start"
  /\ usage = "none"
  /\ probe = [n |-> 0, env |-> NoEnv, out |-> NoCall]
  /\ last = [op |-> "none", arg |-> <<>>, afterClose |-> FALSE, env |-> NoEnv, out |-> NoCall]

\* what may come back for a request whose contract answer is resp
EnvsFor(resp) == {Answer(resp), ServerError, ConnectionLost}

\* 200 bodies outside the wire contract
Undecodable == Deviant(Resp(200, "junk", FALSE, EmptyObj))
EmptyJson == Deviant(Resp(200, "{}", TRUE, EmptyObj))

\* value sequences a deviating remote may send for the key list ks
DeviantValues(ks) ==
  {vs \in UNION {[1..n -> {PyStr("x")}] : n \in 0..(MaxKeys + 1)} : Len(vs) # Len(ks)}

\* c = VectisClient(url), alone or as the head of a with statement
NewClient ==
  \E u \in {"with", "plain"}, env \in EnvsFor(RemoteStats(store)) \cup {TimedOut, Undecodable} :
    LET out == VectisClient_init(env)
    IN  /\ pc = "start"
        /\ session' = "open"
        /\ usage' = u
        /\ probe' = [n |-> IF out.sent THEN 1 ELSE 0, env |-> env, out |-> out]
        /\ IF out.kind = "return"
           THEN client' = "connected" /\ pc' = (IF u = "with" THEN "block" ELSE "plain")
           ELSE client' = "failed" /\ pc' = "done"
        /\ UNCHANGED <<store, vstore, last, vvars>>

\* the caller holds a client object and has not terminated
CanCall == client = "connected" /\ pc \in {"block", "plain", "after"}

\* the caller's side of one call: an exception the caller does not catch leaves
\* the with block through __exit__, or ends a caller that has no block
Called(op, arg, env, out) ==
  /\ CanCall
  /\ last' = [op |-> op, arg |-> arg, afterClose |-> (session = "closed"), env |-> env, out |-> out]
  /\ IF out.kind = "raise"
     THEN \E caught \in BOOLEAN :
            IF caught THEN UNCHANGED <<pc, session>>
            ELSE IF pc = "block" THEN pc' = "done" /\ session' = close(session)
            ELSE pc' = "done" /\ UNCHANGED session
     ELSE UNCHANGED <<pc, session>>
  /\ UNCHANGED <<client, usage, probe, vvars>>

Put ==
  \E k \in Keys, v \in Values, env \in EnvsFor(RemoteOk) :
    /\ Called("put", <<k, v>>, env, put(env))
    /\ store' = IF env.kind = "remote" THEN [store EXCEPT ![k] = Present(v)] ELSE store
    /\ UNCHANGED vstore

Get ==
  \E k \in Keys :
    \E env \in EnvsFor(RemoteGet(store, k)) :
      /\ Called("get", k, env, get(env))
      /\ UNCHANGED <<store, vstore>>

Delete ==
  \E k \in Keys, env \in EnvsFor(RemoteOk) :
    /\ Called("delete", k, env, delete(env))
    /\ store' = IF env.kind = "remote" THEN [store EXCEPT ![k] = Absent] ELSE store
    /\ UNCHANGED vstore

BatchPut ==
  \E S \in SUBSET Keys, env \in EnvsFor(RemoteOk) :
    /\ Called("batch_put", [k \in S |-> "x"], env, batch_put(env))
    /\ store' = IF env.kind = "remote"
                THEN [k \in Keys |-> IF k \in S THEN Present("x") ELSE store[k]]
                ELSE store
    /\ UNCHANGED vstore

BatchGet ==
  \E ks \in KeyLists :
    \E env \in EnvsFor(RemoteBatchGet(store, ks)) \cup {EmptyJson, Undecodable}
               \cup {Deviant(Resp(200, "", TRUE, [values |-> vs])) : vs \in DeviantValues(ks)} :
      /\ Called("batch_get", ks, env, batch_get(ks, env))
      /\ UNCHANGED <<store, vstore>>

Scan ==
  \E start \in Keys, end \in Keys, limit \in 0..1, reverse \in BOOLEAN :
    \E env \in EnvsFor(RemoteScan(store, start, end, limit, reverse)) :
      /\ Called("scan", <<start, end, limit, reverse>>, env, scan(env))
      /\ UNCHANGED <<store, vstore>>

PutVector ==
  \E k \in VKeys, xs \in VecLists, env \in EnvsFor(RemoteOk) :
    LET req == put_vector_request(k, xs)
    IN  /\ Called("put_vector", <<k, xs>>, env, put_vector(env))
        /\ vstore' = IF env.kind = "remote"
                     THEN [vstore EXCEPT ![req.key] =
                             VPresent([i \in 1..Len(req.vector) |-> ToF32(req.vector[i])])]
                     ELSE vstore
        /\ UNCHANGED store

GetVector ==
  \E k \in VKeys :
    \E env \in EnvsFor(RemoteVectorGet(vstore, k)) \cup {EmptyJson, Undecodable} :
      /\ Called("get_vector", k, env, get_vector(env))
      /\ UNCHANGED <<store, vstore>>

SearchSimilar ==
  \E q \in VecLists, k \in 0..MaxK :
    LET req == search_similar_request(q, k)
        qf == [i \in 1..Len(req.query) |-> ToF32(req.query[i])]
    IN  \E env \in {Answer(r) : r \in RemoteSearch(vstore, qf, req.k)}
                   \cup {ServerError, ConnectionLost, EmptyJson} :
          /\ Called("search_similar", <<q, k>>, env, search_similar(env))
          /\ UNCHANGED <<store, vstore>>

GetStats ==
  \E env \in EnvsFor(RemoteStats(store)) :
    /\ Called("get_stats", <<>>, env, get_stats(env))
    /\ UNCHANGED <<store, vstore>>

HealthCheck ==
  \E env \in EnvsFor(RemoteHealth) :
    /\ Called("health_check", <<>>, env, health_check(env))
    /\ UNCHANGED <<store, vstore>>

\* c.close()
Close ==
  /\ CanCall
  /\ session' = close(session)
  /\ last' = [op |-> "close", arg |-> <<>>, afterClose |-> (session = "closed"),
              env |-> NoEnv, out |-> NoCall]
  /\ UNCHANGED <<store, vstore, client, pc, usage, probe, vvars>>

\* the with block ends normally: __exit__ calls close()
ExitBlock ==
  /\ pc = "block"
  /\ session' = close(session)
  /\ pc' = "after"
  /\ UNCHANGED <<store, vstore, client, usage, probe, last, vvars>>

\* the caller ends
Terminate ==
  /\ pc \in {"plain", "after"}
  /\ pc' = "done"
  /\ UNCHANGED <<store, vstore, client, session, usage, probe, last, vvars>>

\* the caller's lifetime and the key-value operations
ClientNext ==
  \/ NewClient
  \/ Put
  \/ Get
  \/ Delete
  \/ BatchPut
  \/ BatchGet
  \/ Scan
  \/ GetStats
  \/ HealthCheck
  \/ Close
  \/ ExitBlock
  \/ Terminate

\* the caller's lifetime, single-key put and get, and the vector operations
ClientVecNext ==
  \/ NewClient
  \/ Put
  \/ Get
  \/ PutVector
  \/ GetVector
  \/ SearchSimilar
  \/ Close
  \/ ExitBlock
  \/ Terminate

Init == VInit /\ CInit

SpecClient == Init /\ [][ClientNext]_vars

SpecClientVec == Init /\ [][ClientVecNext]_vars

SpecMetric == Init /\ [][MetricNext]_vars

SpecVector == Init /\ [][VectorNext]_vars

(* ------------------------------- claims -------------------------------- *)

Metrics == {"cosine_similarity", "euclidean_distance", "dot_product"}

\* the last client call got a response (the transport did not fail)
Answered(op) == last.op = op /\ last.env.fail = "none"

ReturnedNone(out) == out.kind = "return" /\ out.val = PyNone

\* C1: a batch_get whose 200 response carries a value sequence of another
\* length than the key list fails with ProtocolError and returns no mapping.
C1_LengthMismatchFails ==
  (/\ Answered("batch_get")
   /\ last.env.resp.status = 200
   /\ last.env.resp.decodes
   /\ Len(DictGet(last.env.resp.json, "values", <<>>)) # Len(last.arg))
  => (last.out.kind = "raise" /\ last.out.exc = "ProtocolError")

\* what get(k) returns against the store st
SingleGet(st, k) == get(Answer(RemoteGet(st, k)))

\* C2: for a duplicate-free key list answered by the remote store, batch_get
\* returns a mapping over exactly the keys asked for, each value being what
\* get returns for that key against the same store.
C2_BatchMatchesGet ==
  (/\ Answered("batch_get")
   /\ last.env.kind = "remote"
   /\ NoDup(last.arg))
  => /\ last.out.kind = "return"
     /\ DOMAIN last.out.val = Range(last.arg)
     /\ \A k \in Range(last.arg) : last.out.val[k] = SingleGet(store, k).val

\* C3: once close() has been called, every operation other than close() fails
\* with ClientClosed and issues no HTTP request.
C3_ClosedClientRefuses ==
  (last.afterClose /\ last.op \notin {"none", "close"})
  => (last.out.kind = "raise" /\ last.out.exc = "ClientClosed" /\ ~last.out.sent)

\* C4: each of the three metrics fails on two vectors of different dimension
\* and returns no number.
C4_DimensionMismatchFails ==
  (/\ vres.op \in Metrics
   /\ Len(DataOf(heap, vecs, vres.a)) # Len(DataOf(heap, vecs, vres.b)))
  => vres.out.tag = "raise"

\* C5: cosine_similarity of two vectors of equal dimension, one of which has
\* L2 norm zero, returns exactly 0.0: no NaN, no infinity, no exception.
C5_ZeroNormCosineIsZero ==
  (/\ vres.op = "cosine_similarity"
   /\ Len(DataOf(heap, vecs, vres.a)) = Len(DataOf(heap, vecs, vres.b))
   /\ (NpNorm(DataOf(heap, vecs, vres.a)) = 0 \/ NpNorm(DataOf(heap, vecs, vres.b)) = 0))
  => vres.out = Float(0)

\* a zero vector of positive dimension against a vector of non-zero norm
C5_Witness ==
  /\ vres.op = "cosine_similarity"
  /\ Len(DataOf(heap, vecs, vres.a)) = Len(DataOf(heap, vecs, vres.b))
  /\ Len(DataOf(heap, vecs, vres.a)) > 0
  /\ NpNorm(DataOf(heap, vecs, vres.a)) = 0
  /\ NpNorm(DataOf(heap, vecs, vres.b)) > 0
  /\ vres.out = Float(0)

VectorBody(resp) == resp.decodes /\ "vector" \in DOMAIN resp.json

ProbeOk(env) == env.fail = "none" /\ env.resp.status = 200 /\ env.resp.decodes

\* C7: the constructor sends exactly one probe; a probe that does not
\* complete makes it raise VectisConnectionError and hands no client to the
\* caller, so an operation runs only on a client whose probe succeeded.
C7_ProbeBeforeUse ==
  /\ client = "none" => (probe.n = 0 /\ last.op = "none")
  /\ client # "none" => probe.n = 1
  /\ client = "connected" => (ProbeOk(probe.env) /\ probe.out.kind = "return")
  /\ client = "failed" =>
       /\ ~ProbeOk(probe.env)
       /\ probe.out.kind = "raise"
       /\ probe.out.exc = "VectisConnectionError"
       /\ last.op = "none"
       /\ pc = "done"
  /\ ~ProbeOk(probe.env) => client # "connected"
  /\ last.op # "none" => (client = "connected" /\ ProbeOk(probe.env))

\* construction fails on a 200 answer whose body does not decode
C7_Witness ==
  /\ client = "failed"
  /\ probe.env = Undecodable
  /\ probe.n = 1
  /\ probe.out.exc = "VectisConnectionError"

\* C8: when a caller that uses the client as a with statement has ended, by
\* leaving the block, by an exception in the block or by a failed
\* construction, no session is left open.
C8_SessionReleased == (pc = "done" /\ usage = "with") => session # "open"

C10_ResultIsCopy ==
  (vres.op = "normalize" /\ NpNorm(lastNorm.before) = 0)
  => /\ vecs[lastNorm.res] # vecs[lastNorm.src]
     /\ DataOf(heap, vecs, lastNorm.res) = lastNorm.before
     /\ DataOf(heap, vecs, lastNorm.src) = lastNorm.before

\* a component write to the result of such a normalize() leaves the receiver
C10_WriteLeavesReceiver ==
  (/\ lastNorm.res # 0
   /\ NpNorm(lastNorm.before) = 0
   /\ vres'.op = "setitem"
   /\ vres'.a = lastNorm.res
   /\ vres'.out.tag = "none")
  => DataOf(heap', vecs', lastNorm.src) = DataOf(heap, vecs, lastNorm.src)

\* C10: normalize() of a vector whose L2 norm is zero raises nothing and
\* returns a new vector of the same dimension and components; the receiver is
\* not modified, and a later component write to the result does not reach it.
C10_NormalizeZeroCopies == []C10_ResultIsCopy /\ [][C10_WriteLeavesReceiver]_vars

\* the result of normalizing a zero vector was written, the receiver is intact
C10_Witness ==
  /\ vres.op = "setitem"
  /\ vres.out.tag = "none"
  /\ vres.a = lastNorm.res
  /\ Len(lastNorm.before) > 0
  /\ NpNorm(lastNorm.before) = 0
  /\ DataOf(heap, vecs, lastNorm.src) = lastNorm.before
  /\ DataOf(heap, vecs, lastNorm.res) # lastNorm.before

====
